---- MODULE Spec2Model ----
(***************************************************************************)
(* Model of the author-works pipeline:                                     *)
(*   - authors_works.py: enrich_authors_with_all_works / fetch_author_works *)
(*     (bounded-concurrency, cursor-paginated fetch) and the per-pair      *)
(*     accumulation loop of main;                                          *)
(*   - authors_works_aggregate.py: normalize_name and aggregate_authors.   *)
(* The specifications of the module: Spec (the fetch engine), SpecMain     *)
(* (the per-pair loop of main), SpecAgg and SpecGroups (aggregate_authors) *)
(* and SpecNames (normalize_name applied to bounded names).                 *)
(***************************************************************************)
EXTENDS Integers, Sequences, FiniteSets, TLC

VARIABLES
    \* ---- enrich_authors_with_all_works / fetch_author_works ----
    C,                 \* capacity the Semaphore `semaphore` was built with
    R,                 \* capacity the Semaphore `rate_limiter` was built with
    semaphore,         \* free slots of `semaphore`
    rate_limiter,      \* free permits of `rate_limiter`
    pc,                \* per author: position of fetch_single_author_works
    cursor,            \* per author: local `cursor`
    meta,              \* per author: next_cursor of the latest response, while paginating
    all_works,         \* per author: local `all_works` (sequence of page chunks)
    permits,           \* per author: rate_limiter permits currently held
    acquires,          \* per author: number of rate_limiter acquisitions so far
    requests,          \* per author: number of session.get calls issued so far
    served,            \* per author: record counts of the status-200 pages received
    stopped,           \* per author: a response meeting a stop condition was received
    res,               \* tqdm.gather: (index, result) in completion order
    batch,             \* "running" | "returned" | "aborted"
    author_works_dict, \* the result mapping (a function on a subset of the ids)
    \* ---- main of authors_works.py (per-pair rows) ----
    seen_work_author_pairs,
    output_rows,
    sightings,         \* number of (work, authorship) iterations of the loop so far
    dropped,           \* number of iterations skipped because the pair was already seen
    \* ---- aggregate_authors ----
    rows_in,           \* the rows read from INPUT_FILE so far
    normalized_to_group_id,
    name_to_group_id,
    group_id_counter,
    group_normalized_names,
    author_data,
    agg_pc,            \* "reading" | "done"
    agg_output,        \* the sorted output_rows of aggregate_authors
    \* ---- normalize_name ----
    name_a,            \* a name
    name_b,            \* a variant spelling of name_a
    out_a,             \* normalize_name(name_a), then normalize_name of that
    out_b              \* normalize_name(name_b)

fetchVars == <<C, R, semaphore, rate_limiter, pc, cursor, all_works, permits,
               acquires, requests, served, stopped, res, batch, author_works_dict,
               meta>>
mainVars  == <<seen_work_author_pairs, output_rows, sightings, dropped>>
aggVars   == <<rows_in, normalized_to_group_id, name_to_group_id, group_id_counter,
               group_normalized_names, author_data, agg_pc, agg_output>>
nameVars  == <<name_a, name_b, out_a, out_b>>
vars      == <<fetchVars, mainVars, aggVars, nameVars>>

-----------------------------------------------------------------------------
(* Bounds of the model *)
MaxPages    == 2    \* the upstream offers at most this many pages per entity
MaxCapacity == 2    \* scaled-down semaphore capacities explored next to 5 / 10
MaxSightings == 3   \* (work, authorship) iterations of main's accumulation loop
MaxRows     == 2    \* rows of INPUT_FILE read by aggregate_authors
MaxGroupRows == 3   \* rows of INPUT_FILE in the runs that study the groups
MaxNameLen  == 2    \* characters of the names handed to normalize_name

(* Program constants *)
CONCURRENCY == 5
RATE_LIMIT  == 10
PER_PAGE    == 200

-----------------------------------------------------------------------------
(* Generic helpers *)
Range(s) == {s[i] : i \in DOMAIN s}

RECURSIVE SumOver(_, _)
SumOver(f, S) ==
    IF S = {} THEN 0
    ELSE LET x == CHOOSE y \in S : TRUE IN f[x] + SumOver(f, S \ {x})

None == "None"

-----------------------------------------------------------------------------
(* ---------------- the fetch engine (authors_works.py) ------------------- *)

\* the entity ids passed to enrich_authors_with_all_works
author_ids   == <<"A1", "A2", "A3">>
Tasks        == DOMAIN author_ids

\* What the upstream may answer: a status, a number of records on the page,
\* and meta.next_cursor (absent, empty, or the token of the following page).
StatusCodes    == {200, 500}
PageSizes      == {0, 1, PER_PAGE}
CursorTokens   == <<"c2", "c3", "c4", "c5", "c6">>
NextCursors(k) == {None, "", CursorTokens[k]}

\* len(all_works): the number of records accumulated
RECURSIVE RecordCount(_)
RecordCount(chunks) ==
    IF chunks = <<>> THEN 0 ELSE Head(chunks).n + RecordCount(Tail(chunks))

\* all_works.extend(results): an empty page adds no record
Extend(works, chunk) == IF chunk.n = 0 THEN works ELSE Append(works, chunk)

InitFetch ==
    /\ C \in (1..MaxCapacity) \cup {CONCURRENCY}
    /\ R \in (1..MaxCapacity) \cup {RATE_LIMIT}
    /\ semaphore = C
    /\ rate_limiter = R
    /\ pc = [i \in Tasks |-> "pending"]
    /\ cursor = [i \in Tasks |-> None]
    /\ meta = [i \in Tasks |-> None]
    /\ all_works = [i \in Tasks |-> <<>>]
    /\ permits = [i \in Tasks |-> 0]
    /\ acquires = [i \in Tasks |-> 0]
    /\ requests = [i \in Tasks |-> 0]
    /\ served = [i \in Tasks |-> <<>>]
    /\ stopped = [i \in Tasks |-> FALSE]
    /\ res = <<>>
    /\ batch = "running"
    /\ author_works_dict = <<>>

\* async with semaphore (fetch_single_author_works): wait for a free slot
AcquireSemaphore_NoWait(i) ==
    /\ batch = "running"
    /\ pc[i] = "pending"
    /\ semaphore' = semaphore - 1
    /\ pc' = [pc EXCEPT ![i] = "entered"]
    /\ UNCHANGED <<C, R, meta, rate_limiter, cursor, all_works, permits, acquires,
                   requests, served, stopped, res, batch, author_works_dict>>

AcquireSemaphore(i) ==
    /\ batch = "running"
    /\ pc[i] = "pending"
    /\ semaphore > 0
    /\ semaphore' = semaphore - 1
    /\ pc' = [pc EXCEPT ![i] = "entered"]
    /\ UNCHANGED <<C, R, meta, rate_limiter, cursor, all_works, permits, acquires,
                   requests, served, stopped, res, batch, author_works_dict>>

\* fetch_author_works: async with rate_limiter, then all_works = [], cursor = '*'
EnterPagination(i, taken) ==
    /\ rate_limiter' = rate_limiter - taken
    /\ permits' = [permits EXCEPT ![i] = @ + taken]
    /\ acquires' = [acquires EXCEPT ![i] = @ + taken]
    /\ all_works' = [all_works EXCEPT ![i] = <<>>]
    /\ cursor' = [cursor EXCEPT ![i] = "*"]
    /\ pc' = [pc EXCEPT ![i] = "loop"]
    /\ UNCHANGED <<C, R, meta, semaphore, requests, served, stopped, res, batch,
                   author_works_dict>>

AcquireRateLimiter_NoWait(i) ==
    /\ batch = "running"
    /\ pc[i] = "entered"
    /\ EnterPagination(i, 1)

AcquireRateLimiter_Skipped(i) ==
    /\ batch = "running"
    /\ pc[i] = "entered"
    /\ EnterPagination(i, 0)

AcquireRateLimiter(i) ==
    /\ batch = "running"
    /\ pc[i] = "entered"
    /\ rate_limiter > 0
    /\ EnterPagination(i, 1)

\* while cursor: params['cursor'] = cursor; session.get(url, params=params)
SendRequest(i) ==
    /\ batch = "running"
    /\ pc[i] = "loop"
    /\ cursor[i] # None
    /\ requests' = [requests EXCEPT ![i] = @ + 1]
    /\ pc' = [pc EXCEPT ![i] = "inflight"]
    /\ UNCHANGED <<C, R, meta, semaphore, rate_limiter, cursor, all_works, permits,
                   acquires, served, stopped, res, batch, author_works_dict>>

\* One pass of the loop body on a response: the new all_works and cursor, and
\* whether the loop is left (break, or `while cursor` false on the next test).
LoopBody_NoShortPageBreak(works, cur, status, results, next_cursor) ==
    IF status # 200
    THEN [works |-> works, cursor |-> cur, exit |-> TRUE]
    ELSE LET c == IF next_cursor \notin {None, ""} THEN next_cursor ELSE None
         IN  [works |-> Extend(works, results), cursor |-> c, exit |-> c = None]

LoopBody_DropOnError(works, cur, status, results, next_cursor) ==
    IF status # 200
    THEN [works |-> <<>>, cursor |-> cur, exit |-> TRUE]
    ELSE LET c == IF next_cursor \notin {None, ""} THEN next_cursor ELSE None
         IN  [works |-> Extend(works, results), cursor |-> c,
              exit |-> (results.n < PER_PAGE) \/ c = None]

\* a loop that leaves `cursor` as it was
LoopBody_KeepCursor(works, cur, status, results, next_cursor) ==
    IF status # 200
    THEN [works |-> works, cursor |-> cur, exit |-> TRUE]
    ELSE [works |-> Extend(works, results), cursor |-> cur,
          exit |-> (results.n < PER_PAGE) \/ next_cursor \in {None, ""}]

LoopBody(works, cur, status, results, next_cursor) ==
    IF status # 200
    THEN [works |-> works, cursor |-> cur, exit |-> TRUE]
    ELSE LET c == IF next_cursor \notin {None, ""} THEN next_cursor ELSE None
         IN  [works |-> Extend(works, results), cursor |-> c,
              exit |-> (results.n < PER_PAGE) \/ c = None]

\* What the specification calls a stop condition of a page (independent of
\* what the loop decides): no next cursor, a short page, or a non-200 status.
StopCondition(status, n, next_cursor) ==
    \/ status # 200
    \/ n < PER_PAGE
    \/ next_cursor \in {None, ""}

\* a response handler that keeps the rate-limiter permit when it stops on a
\* non-200 status
ReceivePage_LeakOnFailure(i, status, n, next_cursor) ==
    /\ batch = "running"
    /\ pc[i] = "inflight"
    /\ n = 0 \/ status = 200
    /\ next_cursor = None \/ status = 200
    /\ StopCondition(status, n, next_cursor) \/ requests[i] < MaxPages
    /\ LET results == [owner |-> author_ids[i], page |-> requests[i], n |-> n]
           b == LoopBody(all_works[i], cursor[i], status, results, next_cursor)
       IN  /\ all_works' = [all_works EXCEPT ![i] = b.works]
           /\ cursor' = [cursor EXCEPT ![i] = IF b.exit THEN None ELSE b.cursor]
           /\ meta' = [meta EXCEPT ![i] = IF b.exit THEN None ELSE next_cursor]
           /\ served' = [served EXCEPT ![i] =
                            IF status = 200 THEN Append(@, results) ELSE @]
           /\ stopped' = [stopped EXCEPT ![i] = StopCondition(status, n, next_cursor)]
           /\ IF b.exit
              THEN /\ pc' = [pc EXCEPT ![i] = "done"]
                   /\ rate_limiter' = rate_limiter + (IF status = 200 THEN permits[i] ELSE 0)
                   /\ permits' = [permits EXCEPT ![i] = 0]
                   /\ semaphore' = semaphore + 1
                   /\ res' = Append(res, <<i, b.works>>)
              ELSE /\ pc' = [pc EXCEPT ![i] = "loop"]
                   /\ UNCHANGED <<rate_limiter, permits, semaphore, res>>
    /\ UNCHANGED <<C, R, acquires, requests, batch, author_works_dict>>

\* The response of one request arrives: the loop body runs; when the loop is
\* left the function returns, both `async with` blocks release, and the task's
\* (index, result) is appended to the results gathered so far.
ReceivePage(i, status, n, next_cursor) ==
    /\ batch = "running"
    /\ pc[i] = "inflight"
    /\ n = 0 \/ status = 200
    /\ next_cursor = None \/ status = 200
    /\ StopCondition(status, n, next_cursor) \/ requests[i] < MaxPages
    /\ LET results == [owner |-> author_ids[i], page |-> requests[i], n |-> n]
           b == LoopBody(all_works[i], cursor[i], status, results, next_cursor)
       IN  /\ all_works' = [all_works EXCEPT ![i] = b.works]
           /\ cursor' = [cursor EXCEPT ![i] = IF b.exit THEN None ELSE b.cursor]
           /\ meta' = [meta EXCEPT ![i] = IF b.exit THEN None ELSE next_cursor]
           /\ served' = [served EXCEPT ![i] =
                            IF status = 200 THEN Append(@, results) ELSE @]
           /\ stopped' = [stopped EXCEPT ![i] = StopCondition(status, n, next_cursor)]
           /\ IF b.exit
              THEN /\ pc' = [pc EXCEPT ![i] = "done"]
                   /\ rate_limiter' = rate_limiter + permits[i]
                   /\ permits' = [permits EXCEPT ![i] = 0]
                   /\ semaphore' = semaphore + 1
                   /\ res' = Append(res, <<i, b.works>>)
              ELSE /\ pc' = [pc EXCEPT ![i] = "loop"]
                   /\ UNCHANGED <<rate_limiter, permits, semaphore, res>>
    /\ UNCHANGED <<C, R, acquires, requests, batch, author_works_dict>>

\* session.get / response.json() raises (timeout, connection error): nothing in
\* fetch_author_works catches it, so both `async with` blocks release and the
\* task ends with the exception.
RequestRaises(i) ==
    /\ batch = "running"
    /\ pc[i] = "inflight"
    /\ pc' = [pc EXCEPT ![i] = "raised"]
    /\ rate_limiter' = rate_limiter + permits[i]
    /\ permits' = [permits EXCEPT ![i] = 0]
    /\ semaphore' = semaphore + 1
    /\ cursor' = [cursor EXCEPT ![i] = None]
    /\ meta' = [meta EXCEPT ![i] = None]
    /\ UNCHANGED <<C, R, all_works, acquires, requests, served, stopped,
                   res, batch, author_works_dict>>

\* tqdm.gather re-raises the exception of a task; enrich_authors_with_all_works
\* and asyncio.run propagate it, cancelling the tasks still running (their
\* `async with` blocks release). No result mapping is built.
GatherRaises ==
    /\ batch = "running"
    /\ \E i \in Tasks : pc[i] = "raised"
    /\ LET live == {i \in Tasks : pc[i] \in {"pending", "entered", "loop", "inflight"}}
           slot == {i \in live : pc[i] # "pending"}
       IN  /\ pc' = [i \in Tasks |-> IF i \in live THEN "cancelled" ELSE pc[i]]
           /\ semaphore' = semaphore + Cardinality(slot)
           /\ rate_limiter' = rate_limiter + SumOver(permits, live)
           /\ permits' = [i \in Tasks |-> IF i \in live THEN 0 ELSE permits[i]]
           /\ cursor' = [i \in Tasks |-> IF i \in live THEN None ELSE cursor[i]]
           /\ meta' = [i \in Tasks |-> IF i \in live THEN None ELSE meta[i]]
    /\ batch' = "aborted"
    /\ UNCHANGED <<C, R, all_works, acquires, requests, served, stopped,
                   res, author_works_dict>>

\* return [i for _, i in sorted(res)]: the results in the order of the arguments
SortedResults_CompletionOrder(r) == [k \in DOMAIN r |-> r[k][2]]

SortedResults(r) ==
    [k \in DOMAIN r |->
        (CHOOSE e \in Range(r) : Cardinality({f \in Range(r) : f[1] < e[1]}) = k - 1)[2]]

\* `if works:` of the collection loop
KeepInMapping_Always(works) == TRUE

KeepInMapping(works) == RecordCount(works) > 0

\* for author_id, works in zip(author_ids, all_author_works): if works: ...
BuildDict(ids, all_author_works) ==
    LET n    == IF Len(ids) < Len(all_author_works) THEN Len(ids)
                ELSE Len(all_author_works)
        kept == {k \in 1..n : KeepInMapping(all_author_works[k])}
    IN  [a \in {ids[k] : k \in kept} |->
            all_author_works[CHOOSE k \in kept :
                                /\ ids[k] = a
                                /\ \A m \in kept : ids[m] = a => m <= k]]

\* every task returned: gather returns and the result mapping is built
GatherReturn ==
    /\ batch = "running"
    /\ \A i \in Tasks : pc[i] = "done"
    /\ author_works_dict' = BuildDict(author_ids, SortedResults(res))
    /\ batch' = "returned"
    /\ UNCHANGED <<C, R, meta, semaphore, rate_limiter, pc, cursor, all_works, permits,
                   acquires, requests, served, stopped, res>>

NextFetch ==
    \/ \E i \in Tasks : AcquireSemaphore(i)
    \/ \E i \in Tasks : AcquireRateLimiter(i)
    \/ \E i \in Tasks : SendRequest(i)
    \/ \E i \in {j \in Tasks : pc[j] = "inflight"} :
          \E status \in StatusCodes, n \in PageSizes, nc \in NextCursors(requests[i]) :
              ReceivePage(i, status, n, nc)
    \/ \E i \in Tasks : RequestRaises(i)
    \/ GatherRaises
    \/ GatherReturn

-----------------------------------------------------------------------------
(* The fetch engine when every request is answered: no session.get raises.  *)
(* The event loop runs every ready coroutine, and asyncio.Semaphore wakes   *)
(* its waiters in arrival order: a step of a task that stays possible is    *)
(* eventually taken.                                                        *)
\* a response arrives; the pages of these runs are full, so that a pagination
\* ends when the upstream returns no further cursor or on a non-200 status
Respond(i) ==
    /\ pc[i] = "inflight"
    /\ \E status \in StatusCodes, nc \in NextCursors(requests[i]) :
          ReceivePage(i, status, IF status = 200 THEN PER_PAGE ELSE 0, nc)

NextAnswered ==
    \/ \E i \in Tasks : AcquireSemaphore(i)
    \/ \E i \in Tasks : AcquireRateLimiter(i)
    \/ \E i \in Tasks : SendRequest(i)
    \/ \E i \in Tasks : Respond(i)
    \/ GatherReturn

Fairness ==
    /\ \A i \in Tasks :
          /\ WF_fetchVars(AcquireSemaphore(i))
          /\ WF_fetchVars(AcquireRateLimiter(i))
          /\ WF_fetchVars(SendRequest(i))
          /\ WF_fetchVars(Respond(i))
    /\ WF_fetchVars(GatherReturn)

-----------------------------------------------------------------------------
(* Idle values of the parts a specification does not exercise *)
IdleFetch ==
    /\ C = CONCURRENCY
    /\ R = RATE_LIMIT
    /\ semaphore = CONCURRENCY
    /\ rate_limiter = RATE_LIMIT
    /\ pc = <<>>
    /\ cursor = <<>>
    /\ meta = <<>>
    /\ all_works = <<>>
    /\ permits = <<>>
    /\ acquires = <<>>
    /\ requests = <<>>
    /\ served = <<>>
    /\ stopped = <<>>
    /\ res = <<>>
    /\ batch = "idle"
    /\ author_works_dict = <<>>

IdleMain ==
    /\ seen_work_author_pairs = {}
    /\ output_rows = <<>>
    /\ sightings = 0
    /\ dropped = 0

IdleAgg ==
    /\ rows_in = <<>>
    /\ normalized_to_group_id = <<>>
    /\ name_to_group_id = <<>>
    /\ group_id_counter = 0
    /\ group_normalized_names = <<>>
    /\ author_data = <<>>
    /\ agg_pc = "idle"
    /\ agg_output = <<>>

IdleNames ==
    /\ name_a = <<>>
    /\ name_b = <<>>
    /\ out_a = <<>>
    /\ out_b = <<>>

-----------------------------------------------------------------------------
(* The fetch engine *)
Init == InitFetch /\ IdleMain /\ IdleAgg /\ IdleNames
Next == NextFetch /\ UNCHANGED <<mainVars, aggVars, nameVars>>
Spec == Init /\ [][Next]_vars

NextLive == NextAnswered /\ UNCHANGED <<mainVars, aggVars, nameVars>>
SpecLive == Init /\ [][NextLive]_vars /\ Fairness

-----------------------------------------------------------------------------
(* Properties of the fetch engine *)

InFlight      == {i \in Tasks : pc[i] = "inflight"}
Invocations   == {i \in Tasks : pc[i] \in {"entered", "loop", "inflight"}}
PermitsHeld   == SumOver(permits, Tasks)
\* the records of the status-200 pages an entity received, in page order
Received(i)   == SelectSeq(served[i], LAMBDA c : c.n > 0)
\* the entity's last request was answered with a non-200 status
StatusFailed(i) == pc[i] = "done" /\ requests[i] > Len(served[i])

\* C1: at every instant at most R rate-limiter permits are held, and so at most
\* R upstream requests are in flight across all entities.
C1_AtMostRPermits ==
    /\ PermitsHeld <= R
    /\ rate_limiter = R - PermitsHeld
    /\ Cardinality(InFlight) <= R
    /\ \A i \in InFlight : permits[i] >= 1

\* Capacity 2, three concurrent acquirers: two granted, the third waits.
C1_Witness ==
    /\ R = 2
    /\ PermitsHeld = 2
    /\ Cardinality(InFlight) = 2
    /\ \E i \in Tasks : pc[i] = "entered"

\* C2 (as stated): one permit per page request, none held between two requests.
C2_PermitPerRequest ==
    \A i \in Tasks :
        /\ pc[i] = "done" => acquires[i] = requests[i]
        /\ (pc[i] = "loop" /\ requests[i] > 0) => permits[i] = 0

\* C2 (amended): one rate-limiter permit is acquired per entity, before its
\* first request, and it is held across all of the entity's page requests
\* until the pagination ends: k requests, one acquire/release cycle.
C2_PermitPerEntity ==
    \A i \in Tasks :
        /\ acquires[i] <= 1
        /\ pc[i] \in {"pending", "entered"} => acquires[i] = 0 /\ requests[i] = 0
        /\ pc[i] \in {"loop", "inflight"} => acquires[i] = 1 /\ permits[i] = 1
        /\ pc[i] \in {"done", "raised"} => acquires[i] = 1 /\ permits[i] = 0

\* Two page requests were made under a single acquisition.
C2_Witness ==
    \E i \in Tasks : pc[i] = "done" /\ requests[i] = 2 /\ acquires[i] = 1

\* C3: at every instant at most C fetch_author_works invocations have started
\* and not returned, whatever the rate limiter's capacity.
C3_AtMostCInvocations ==
    /\ Cardinality(Invocations) <= C
    /\ semaphore = C - Cardinality(Invocations)

\* Two invocations fill the two slots (one of them still waiting for the single
\* rate-limiter permit) and a third entity waits for a slot.
C3_Witness ==
    /\ C = 2
    /\ R = 1
    /\ Cardinality(Invocations) = 2
    /\ \E i \in Tasks : pc[i] = "pending"

\* C4: a non-200 status for one entity never cancels or fails a sibling: the
\* batch is aborted only by a raised exception, and when the batch returns
\* every entity is mapped to exactly the records of the pages it received
\* (the partial data of an entity stopped by a status, the full data of the rest).
C4_SiblingsIndependent ==
    /\ (batch = "aborted" \/ \E i \in Tasks : pc[i] = "cancelled")
           => \E i \in Tasks : pc[i] = "raised"
    /\ batch = "returned" =>
           \A i \in Tasks :
               IF Received(i) = <<>>
               THEN author_ids[i] \notin DOMAIN author_works_dict
               ELSE /\ author_ids[i] \in DOMAIN author_works_dict
                    /\ author_works_dict[author_ids[i]] = Received(i)

\* A fails with a status on page 2 after one full page; B completes two pages.
C4_Witness ==
    /\ batch = "returned"
    /\ \E a, b \in Tasks :
          /\ a # b
          /\ StatusFailed(a) /\ requests[a] = 2
          /\ RecordCount(author_works_dict[author_ids[a]]) = PER_PAGE
          /\ ~StatusFailed(b) /\ requests[b] = 2
          /\ Len(author_works_dict[author_ids[b]]) = 2

\* C5 (as stated): a request that raises is treated like a non-200 status: the
\* task returns what it accumulated and the batch is not aborted.
C5_TransportFailureIsPartial ==
    /\ batch # "aborted"
    /\ \A i \in Tasks :
          pc[i] = "raised" => \E k \in DOMAIN res : res[k] = <<i, all_works[i]>>

\* C6: pagination stops at the first page that has no next cursor, fewer than
\* PER_PAGE records or a non-200 status, no request follows that page, and
\* all_works is the concatenation, in page order, of the status-200 pages.
C6_StopsAtFirstStoppingPage ==
    \A i \in Tasks :
        /\ stopped[i] => pc[i] = "done"
        /\ pc[i] = "done" => stopped[i]
        /\ pc[i] \in {"loop", "inflight", "done"} =>
              /\ all_works[i] = Received(i)
              /\ \A k \in DOMAIN served[i] : served[i][k].page = k
        /\ pc[i] = "loop" => requests[i] = Len(served[i])
        /\ pc[i] = "inflight" => requests[i] = Len(served[i]) + 1

\* A full first page without next cursor: exactly one request, 200 records.
C6_Witness ==
    \E i \in Tasks :
        /\ pc[i] = "done"
        /\ requests[i] = 1
        /\ RecordCount(all_works[i]) = PER_PAGE

\* C7: the result mapping has an entity id exactly when the entity's fetch
\* accumulated at least one record; no key maps to an empty sequence.
C7_ZeroRecordEntitiesOmitted ==
    batch = "returned" =>
        /\ DOMAIN author_works_dict =
              {author_ids[i] : i \in {j \in Tasks : RecordCount(all_works[j]) > 0}}
        /\ \A a \in DOMAIN author_works_dict : author_works_dict[a] # <<>>

\* One entity's first page failed (absent), one returned an empty page
\* (absent), one returned records (present).
C7_Witness ==
    /\ batch = "returned"
    /\ \E i, j, k \in Tasks :
          /\ requests[i] = 1 /\ served[i] = <<>>
          /\ author_ids[i] \notin DOMAIN author_works_dict
          /\ Len(served[j]) = 1 /\ served[j][1].n = 0
          /\ author_ids[j] \notin DOMAIN author_works_dict
          /\ author_ids[k] \in DOMAIN author_works_dict

-----------------------------------------------------------------------------
(* --------- main of authors_works.py: the per-pair output rows ----------- *)

\* An OpenAlex id as it appears in a payload: absent (None), the bare key, or
\* the key behind the 'https://openalex.org/' prefix.
RawIds(keys) == [kind : {"none"}, key : {""}] \cup [kind : {"bare", "url"}, key : keys]

\* (x or '').replace('https://openalex.org/', '')
StripPrefix(raw) == IF raw.kind = "none" THEN "" ELSE raw.key

\* the ids collected from the search results (non-empty, prefix stripped)
search_author_ids == {"A1", "A2"}

\* the works returned by the fetches, and the authorship entries they carry
\* (has_author = FALSE: the 'author' object is missing or empty)
WorkItems   == [id : RawIds({"", "W1", "W2"}), cited_by_count : {0, 7}]
Authorships == [has_author : {FALSE}, id : RawIds({})]
                   \cup [has_author : {TRUE}, id : RawIds({"", "A1", "A2", "A9"})]

\* pair_key = (work_id, current_author_id)
PairKey_Unstripped(work, authorship) == <<work.id, authorship.id>>

PairKey(work, authorship) == <<StripPrefix(work.id), StripPrefix(authorship.id)>>

\* _extract_work_data_for_author: the columns that identify the row, and
\* cited_by_count as the representative of the copied work columns
ExtractWorkData(work, authorship) ==
    [id             |-> StripPrefix(work.id),
     author_id      |-> IF authorship.has_author THEN StripPrefix(authorship.id) ELSE "",
     cited_by_count |-> work.cited_by_count]

InitMainLoop ==
    /\ seen_work_author_pairs = {}
    /\ output_rows = <<>>
    /\ sightings = 0
    /\ dropped = 0

\* One iteration of `for authorship in work.get('authorships', [])` for some
\* work of some fetched author
ProcessAuthorship(work, authorship) ==
    /\ sightings < MaxSightings
    /\ sightings' = sightings + 1
    /\ LET work_id           == StripPrefix(work.id)
           current_author_id == StripPrefix(authorship.id)
           pair_key          == PairKey(work, authorship)
           work_data         == ExtractWorkData(work, authorship)
       IN  IF /\ work_id # ""
              /\ authorship.has_author
              /\ current_author_id \in search_author_ids
           THEN IF pair_key \notin seen_work_author_pairs
                THEN /\ seen_work_author_pairs' = seen_work_author_pairs \cup {pair_key}
                     /\ output_rows' = IF work_data.id # ""
                                       THEN Append(output_rows, work_data)
                                       ELSE output_rows
                     /\ UNCHANGED dropped
                ELSE /\ dropped' = dropped + 1
                     /\ UNCHANGED <<seen_work_author_pairs, output_rows>>
           ELSE UNCHANGED <<seen_work_author_pairs, output_rows, dropped>>

NextMainLoop ==
    \E work \in WorkItems, authorship \in Authorships : ProcessAuthorship(work, authorship)

InitMain == IdleFetch /\ InitMainLoop /\ IdleAgg /\ IdleNames
NextMain == NextMainLoop /\ UNCHANGED <<fetchVars, aggVars, nameVars>>
SpecMain == InitMain /\ [][NextMain]_vars

\* C8: at most one output row per (work id, author id) pair: no two output
\* rows have the same (id, author_id), and every row's pair is a recorded pair.
C8_OneRowPerPair ==
    /\ \A j, k \in DOMAIN output_rows :
          (output_rows[j].id = output_rows[k].id
              /\ output_rows[j].author_id = output_rows[k].author_id) => j = k
    /\ \A j \in DOMAIN output_rows :
          /\ output_rows[j].id # ""
          /\ output_rows[j].author_id \in search_author_ids

\* The same work was emitted for two authors and a re-sighted pair was dropped.
C8_Witness ==
    /\ dropped = 1
    /\ Len(output_rows) = 2
    /\ output_rows[1].id = output_rows[2].id

-----------------------------------------------------------------------------
(* ------------- authors_works_aggregate.py: normalize_name --------------- *)
(* A name is a sequence of characters. The characters of the model:        *)
(*   "a" "b" "A" "B"  letters;  "a^" "A^"  precomposed accented letters;   *)
(*   "^"  a combining mark;  "1" a digit;  "_"  underscore (a \w char);     *)
(*   " "  whitespace;  "-"  hyphen;  "."  punctuation;                      *)
(*   "a/" "A/"  a letter written with a stroke (as in U+00F8, U+0142,      *)
(*        U+0111): one code point that has no decomposition;               *)
(*   "i" "I" "i0"  the letter i and the dotless i (U+0131), whose upper    *)
(*        case is "I" while the lower case of "I" is "i".                  *)

\* unicodedata.normalize('NFKD', c) of one character
Decompose(c) ==
    CASE c = "a^" -> <<"a", "^">>
      [] c = "A^" -> <<"A", "^">>
      [] OTHER    -> <<c>>

\* unicodedata.combining(c) # 0
IsCombining(c) == c = "^"
\* \s and \w of the re module
IsSpace(c) == c = " "
IsWord(c)  == c \in {"a", "b", "A", "B", "a^", "A^", "1", "_",
                      "a/", "A/", "i", "I", "i0"}

\* str.lower / str.upper of one character
LowerChar(c) ==
    CASE c = "A" -> "a" [] c = "B" -> "b" [] c = "A^" -> "a^"
      [] c = "A/" -> "a/" [] c = "I" -> "i" [] OTHER -> c
UpperChar(c) ==
    CASE c = "a" -> "A" [] c = "b" -> "B" [] c = "a^" -> "A^"
      [] c = "a/" -> "A/" [] c = "i" -> "I" [] c = "i0" -> "I" [] OTHER -> c

\* no decomposition at all
NFKD_None(name) == name

RECURSIVE NFKD(_)
NFKD(name) == IF name = <<>> THEN <<>> ELSE Decompose(Head(name)) \o NFKD(Tail(name))

RECURSIVE DropSeparators(_)
DropSeparators(name) ==
    IF name # <<>> /\ (Head(name) = "-" \/ IsSpace(Head(name)))
    THEN DropSeparators(Tail(name)) ELSE name

\* re.sub(r'[-\s]+', ' ', name)
RECURSIVE CollapseSeparators(_)
CollapseSeparators(name) ==
    IF name = <<>> THEN <<>>
    ELSE IF Head(name) = "-" \/ IsSpace(Head(name))
         THEN <<" ">> \o CollapseSeparators(DropSeparators(name))
         ELSE <<Head(name)>> \o CollapseSeparators(Tail(name))

\* str.strip()
RECURSIVE LStrip(_)
LStrip(name) ==
    IF name # <<>> /\ IsSpace(Head(name)) THEN LStrip(Tail(name)) ELSE name
RECURSIVE RStrip(_)
RStrip(name) ==
    IF name # <<>> /\ IsSpace(name[Len(name)])
    THEN RStrip(SubSeq(name, 1, Len(name) - 1)) ELSE name
Strip(name) == RStrip(LStrip(name))

\* the same steps with strip() applied before the separators are collapsed
normalize_name_StripFirst(name) ==
    IF name = <<>> THEN <<>>
    ELSE LET decomposed == NFKD(name)
             unmarked   == SelectSeq(decomposed, LAMBDA c : ~IsCombining(c))
             kept       == SelectSeq(unmarked,
                                     LAMBDA c : IsWord(c) \/ IsSpace(c) \/ c = "-")
             collapsed  == CollapseSeparators(Strip(kept))
         IN  [k \in DOMAIN collapsed |-> LowerChar(collapsed[k])]

normalize_name(name) ==
    IF name = <<>> THEN <<>>
    ELSE LET decomposed == NFKD(name)
             unmarked   == SelectSeq(decomposed, LAMBDA c : ~IsCombining(c))
             kept       == SelectSeq(unmarked,
                                     LAMBDA c : IsWord(c) \/ IsSpace(c) \/ c = "-")
             collapsed  == CollapseSeparators(kept)
             lowered    == [k \in DOMAIN collapsed |-> LowerChar(collapsed[k])]
         IN  Strip(lowered)

\* ' '.join(normalized_name.split()): whitespace runs become one space
RECURSIVE JoinSplit(_)
JoinSplit(name) ==
    IF name = <<>> THEN <<>>
    ELSE IF IsSpace(Head(name))
         THEN (IF LStrip(name) = <<>> THEN <<>> ELSE <<" ">> \o JoinSplit(LStrip(name)))
         ELSE <<Head(name)>> \o JoinSplit(Tail(name))

\* ' '.join(word.capitalize() for word in normalized_name.split())
TitleCase(name) ==
    LET words == JoinSplit(LStrip(name))
    IN  [k \in DOMAIN words |->
            IF k = 1 \/ words[k - 1] = " "
            THEN UpperChar(words[k]) ELSE LowerChar(words[k])]

-----------------------------------------------------------------------------
(* ------------ authors_works_aggregate.py: aggregate_authors ------------- *)

\* dict[key] = value
Put(dict, key, value) ==
    [k \in DOMAIN dict \cup {key} |-> IF k = key THEN value ELSE dict[k]]

\* int(text) of a cited_by_count cell: the cells that parse, and their values
IntCells == {"0", "1", "2"}
IntOf(text) == CASE text = "0" -> 0 [] text = "1" -> 1 [] text = "2" -> 2

\* int(pub_date[:4]) of a publication_date cell, where it parses
DateCells == {"2020-05-01", "1850-01-01"}
YearOf(text) == CASE text = "2020-05-01" -> 2020 [] text = "1850-01-01" -> 1850

\* cell.lower() of a references_israel cell
LowerCell(text) == CASE text = "Yes" -> "yes" [] text = "No" -> "no" [] OTHER -> text

\* sorted(strings): the order of the strings that occur in the model
StringOrder == <<"", "A1", "A2", "Aff1", "IL", "Inst1", "Inst2", "S1", "US">>
Rank(text) == CHOOSE k \in DOMAIN StringOrder : StringOrder[k] = text
RECURSIVE Sorted(_)
Sorted(set) ==
    IF set = {} THEN <<>>
    ELSE LET least == CHOOSE x \in set : \A y \in set : Rank(x) <= Rank(y)
         IN  <<least>> \o Sorted(set \ {least})

\* the non-blank items of cell.split(';')
Items(cell) == {cell[k] : k \in DOMAIN cell} \ {""}

AuthorNames == { <<"A", ".", " ", "b">>, <<"a", "-", "B", " ">>, <<"b">> }
WorkIds     == {"W1", "W2"}
AuthorIds   == {"A1", "A2"}
CitedCells  == {"", "1", "2"}

\* The remaining columns of a row follow its work: W1 has a journal, a
\* parseable date, the relevance flag, institutions and countries; the other
\* work has no source, an out-of-range date and raw affiliations only.
RowDetails(id) ==
    IF id = "W1"
    THEN [source_id |-> "S1", references_israel |-> "Yes",
          publication_date |-> "2020-05-01",
          institutions |-> <<"Inst2", "", "Inst1">>, countries |-> <<"US", "IL">>,
          affiliations_comment |-> <<>>]
    ELSE [source_id |-> "", references_israel |-> "No",
          publication_date |-> "1850-01-01",
          institutions |-> <<>>, countries |-> <<>>,
          affiliations_comment |-> <<"Aff1">>]

Row(name, id, author_id, cited) ==
    [author_name |-> name, id |-> id, author_id |-> author_id,
     cited_by_count |-> cited,
     source_id |-> RowDetails(id).source_id,
     references_israel |-> RowDetails(id).references_israel,
     publication_date |-> RowDetails(id).publication_date,
     institutions |-> RowDetails(id).institutions,
     countries |-> RowDetails(id).countries,
     affiliations_comment |-> RowDetails(id).affiliations_comment]

\* the rows INPUT_FILE may hold, among them a row with a blank author name
\* and a row without work id
RowDomain ==
    { Row(name, id, author_id, cited) :
        name \in AuthorNames, id \in WorkIds, author_id \in AuthorIds,
        cited \in CitedCells }
    \cup { Row(<<" ">>, "W1", "A1", "1"), Row(<<"b">>, "", "A1", "1") }

\* the value of the defaultdict author_data for a new group
NewGroupData ==
    [author_ids |-> {}, work_ids |-> {}, specific_work_ids |-> {},
     cited_by_per_work |-> <<>>, years |-> {}, source_ids |-> {},
     institutions |-> {}, countries |-> {}, affiliations |-> {}]

\* the aggregation state before the first row
NewAggregation ==
    [normalized_to_group_id |-> <<>>, name_to_group_id |-> <<>>,
     group_id_counter |-> 0, group_normalized_names |-> <<>>, author_data |-> <<>>]

\* a grouper that consults only the raw-string cache: every new spelling
\* opens a new group
Resolve_AlwaysNew(st, author_name) ==
    IF author_name \in DOMAIN st.name_to_group_id
    THEN [st |-> st, group_id |-> st.name_to_group_id[author_name]]
    ELSE LET group_id == st.group_id_counter
         IN  [st |-> [st EXCEPT
                        !.group_id_counter = @ + 1,
                        !.normalized_to_group_id =
                            Put(@, normalize_name(author_name), group_id),
                        !.group_normalized_names =
                            Put(@, group_id, normalize_name(author_name)),
                        !.name_to_group_id = Put(@, author_name, group_id)],
              group_id |-> group_id]

\* The Identity Grouper: the state after resolving author_name, and its group id
Resolve(st, author_name) ==
    IF author_name \in DOMAIN st.name_to_group_id
    THEN [st |-> st, group_id |-> st.name_to_group_id[author_name]]
    ELSE LET normalized_name == normalize_name(author_name)
         IN  IF normalized_name \in DOMAIN st.normalized_to_group_id
             THEN LET group_id == st.normalized_to_group_id[normalized_name]
                  IN  [st |-> [st EXCEPT !.name_to_group_id =
                                    Put(@, author_name, group_id)],
                       group_id |-> group_id]
             ELSE LET group_id == st.group_id_counter
                  IN  [st |-> [st EXCEPT
                                 !.group_id_counter = @ + 1,
                                 !.normalized_to_group_id = Put(@, normalized_name, group_id),
                                 !.group_normalized_names = Put(@, group_id, normalized_name),
                                 !.name_to_group_id = Put(@, author_name, group_id)],
                       group_id |-> group_id]

\* cited_by = int(...); if work_id not in cited_by_per_work: record it
RecordCitation_Resummed(per_work, work_id, cell) ==
    IF cell \in IntCells
    THEN Put(per_work, work_id,
             IntOf(cell) + (IF work_id \in DOMAIN per_work THEN per_work[work_id] ELSE 0))
    ELSE per_work

RecordCitation_LastWins(per_work, work_id, cell) ==
    IF cell \in IntCells THEN Put(per_work, work_id, IntOf(cell)) ELSE per_work

RecordCitation(per_work, work_id, cell) ==
    IF cell \in IntCells /\ work_id \notin DOMAIN per_work
    THEN Put(per_work, work_id, IntOf(cell))
    ELSE per_work

\* the accumulation of one row into the data of its group
Accumulate(data, work_id, row) ==
    [author_ids        |-> IF row.author_id # "" THEN data.author_ids \cup {row.author_id}
                           ELSE data.author_ids,
     work_ids          |-> data.work_ids \cup {work_id},
     source_ids        |-> IF row.source_id # "" THEN data.source_ids \cup {row.source_id}
                           ELSE data.source_ids,
     specific_work_ids |-> IF LowerCell(row.references_israel) \in {"yes", "true", "1"}
                           THEN data.specific_work_ids \cup {work_id}
                           ELSE data.specific_work_ids,
     cited_by_per_work |-> RecordCitation(data.cited_by_per_work, work_id, row.cited_by_count),
     years             |-> IF /\ row.publication_date \in DateCells
                              /\ 1900 <= YearOf(row.publication_date)
                              /\ YearOf(row.publication_date) <= 2100
                           THEN data.years \cup {YearOf(row.publication_date)}
                           ELSE data.years,
     institutions      |-> data.institutions \cup Items(row.institutions),
     countries         |-> data.countries \cup Items(row.countries),
     affiliations      |-> data.affiliations \cup Items(row.affiliations_comment)]

\* a reader that resolves blank author names like any other name
ProcessRow_KeepBlank(st, row) ==
    LET author_name == Strip(row.author_name)
        work_id     == row.id
    IN  IF work_id = "" THEN st
        ELSE LET r    == Resolve(st, author_name)
                 data == IF r.group_id \in DOMAIN r.st.author_data
                         THEN r.st.author_data[r.group_id] ELSE NewGroupData
             IN  [r.st EXCEPT !.author_data =
                      Put(@, r.group_id, Accumulate(data, work_id, row))]

\* the body of `for row in reader`
ProcessRow(st, row) ==
    LET author_name == Strip(row.author_name)
        work_id     == row.id
    IN  IF author_name = <<>> \/ work_id = "" THEN st
        ELSE LET r    == Resolve(st, author_name)
                 data == IF r.group_id \in DOMAIN r.st.author_data
                         THEN r.st.author_data[r.group_id] ELSE NewGroupData
             IN  [r.st EXCEPT !.author_data =
                      Put(@, r.group_id, Accumulate(data, work_id, row))]

\* the output row of one group (min_year / max_year: the ends of the sorted
\* year list, or nothing when the group has no year)
GroupRow(st, group_id) ==
    LET data            == st.author_data[group_id]
        normalized_name == IF group_id \in DOMAIN st.group_normalized_names
                           THEN st.group_normalized_names[group_id] ELSE <<>>
    IN  [author_name          |-> TitleCase(normalized_name),
         author_ids           |-> Sorted(data.author_ids),
         works_count          |-> Cardinality(data.work_ids),
         specific_works_count |-> Cardinality(data.specific_work_ids),
         journals_count       |-> Cardinality(data.source_ids),
         cited_by_count       |-> SumOver(data.cited_by_per_work,
                                          DOMAIN data.cited_by_per_work),
         min_year             |-> IF data.years = {} THEN <<>>
                                  ELSE <<CHOOSE y \in data.years :
                                            \A z \in data.years : y <= z>>,
         max_year             |-> IF data.years = {} THEN <<>>
                                  ELSE <<CHOOSE y \in data.years :
                                            \A z \in data.years : z <= y>>,
         institutions         |-> Sorted(data.institutions),
         countries            |-> Sorted(data.countries),
         affiliations_comment |-> Sorted(data.affiliations)]

\* the same sort without reverse=True
RECURSIVE SortByWorksCount_Ascending(_)
SortByWorksCount_Ascending(rows) ==
    IF rows = <<>> THEN <<>>
    ELSE LET front == SortByWorksCount_Ascending(SubSeq(rows, 1, Len(rows) - 1))
             last  == rows[Len(rows)]
             p     == Cardinality({k \in DOMAIN front :
                                      front[k].works_count <= last.works_count})
         IN  SubSeq(front, 1, p) \o <<last>> \o SubSeq(front, p + 1, Len(front))

\* output_rows.sort(key=works_count, reverse=True): a stable sort
RECURSIVE SortByWorksCount(_)
SortByWorksCount(rows) ==
    IF rows = <<>> THEN <<>>
    ELSE LET front == SortByWorksCount(SubSeq(rows, 1, Len(rows) - 1))
             last  == rows[Len(rows)]
             p     == Cardinality({k \in DOMAIN front :
                                      front[k].works_count >= last.works_count})
         IN  SubSeq(front, 1, p) \o <<last>> \o SubSeq(front, p + 1, Len(front))

\* the rows written to OUTPUT_FILE: one per group in creation order, then sorted
OutputRows(st) ==
    SortByWorksCount([k \in 1..Cardinality(DOMAIN st.author_data) |-> GroupRow(st, k - 1)])

Aggregation ==
    [normalized_to_group_id |-> normalized_to_group_id,
     name_to_group_id       |-> name_to_group_id,
     group_id_counter       |-> group_id_counter,
     group_normalized_names |-> group_normalized_names,
     author_data            |-> author_data]

InitAggregate ==
    /\ rows_in = <<>>
    /\ normalized_to_group_id = NewAggregation.normalized_to_group_id
    /\ name_to_group_id = NewAggregation.name_to_group_id
    /\ group_id_counter = NewAggregation.group_id_counter
    /\ group_normalized_names = NewAggregation.group_normalized_names
    /\ author_data = NewAggregation.author_data
    /\ agg_pc = "reading"
    /\ agg_output = <<>>

\* the reader yields one more row
ReadRow(row) ==
    /\ agg_pc = "reading"
    /\ Len(rows_in) < MaxRows
    /\ rows_in' = Append(rows_in, row)
    /\ LET st == ProcessRow(Aggregation, row)
       IN  /\ normalized_to_group_id' = st.normalized_to_group_id
           /\ name_to_group_id' = st.name_to_group_id
           /\ group_id_counter' = st.group_id_counter
           /\ group_normalized_names' = st.group_normalized_names
           /\ author_data' = st.author_data
    /\ UNCHANGED <<agg_pc, agg_output>>

\* the reader is exhausted: the output rows are built, sorted and written
Finish ==
    /\ agg_pc = "reading"
    /\ agg_output' = OutputRows(Aggregation)
    /\ agg_pc' = "done"
    /\ UNCHANGED <<rows_in, normalized_to_group_id, name_to_group_id,
                   group_id_counter, group_normalized_names, author_data>>

NextAggregate ==
    \/ \E row \in RowDomain : ReadRow(row)
    \/ Finish

InitAgg == IdleFetch /\ IdleMain /\ InitAggregate /\ IdleNames
NextAgg == NextAggregate /\ UNCHANGED <<fetchVars, mainVars, nameVars>>
SpecAgg == InitAgg /\ [][NextAgg]_vars

\* aggregate_authors over a file of up to MaxGroupRows rows whose author names
\* spell three canonical keys in several ways
GroupNames ==
    { <<"A", ".", " ", "b">>, <<"a", "-", "B", " ">>, <<"b">>, <<"B">>,
      <<"a">>, <<" ">> }

GroupRowDomain ==
    { Row(name, id, "A1", "1") : name \in GroupNames, id \in WorkIds }
        \cup { Row(<<"b">>, "", "A1", "1") }

ReadGroupRow(row) ==
    /\ agg_pc = "reading"
    /\ Len(rows_in) < MaxGroupRows
    /\ rows_in' = Append(rows_in, row)
    /\ LET st == ProcessRow(Aggregation, row)
       IN  /\ normalized_to_group_id' = st.normalized_to_group_id
           /\ name_to_group_id' = st.name_to_group_id
           /\ group_id_counter' = st.group_id_counter
           /\ group_normalized_names' = st.group_normalized_names
           /\ author_data' = st.author_data
    /\ UNCHANGED <<agg_pc, agg_output>>

NextGroupRows ==
    \/ \E row \in GroupRowDomain : ReadGroupRow(row)
    \/ Finish

NextGroups == NextGroupRows /\ UNCHANGED <<fetchVars, mainVars, nameVars>>
SpecGroups == InitAgg /\ [][NextGroups]_vars

-----------------------------------------------------------------------------
(* normalize_name applied to the names of up to MaxNameLen characters *)
Alphabet ==
    {"a", "A", "a^", "A^", "a/", "^", "I", "i0", " ", "-", "."}

RECURSIVE NamesOfLen(_)
NamesOfLen(n) ==
    IF n = 0 THEN {<<>>}
    ELSE {Append(name, c) : name \in NamesOfLen(n - 1), c \in Alphabet}

Names == UNION {NamesOfLen(n) : n \in 0..MaxNameLen}

\* The letter a character stands for when diacritics and case are set aside,
\* hyphens being read as spaces.
BaseLetter(c) ==
    CASE c \in {"a", "A", "a^", "A^", "a/", "A/"} -> "a"
      [] c \in {"b", "B"}                         -> "b"
      [] c \in {"i", "I", "i0"}                   -> "i"
      [] c = "-"                                  -> " "
      [] OTHER                                    -> c

\* A name with its diacritics, letter case, hyphen-versus-space and
\* leading/trailing whitespace set aside.
Fold(name) ==
    LET unmarked == SelectSeq(name, LAMBDA c : ~IsCombining(c))
    IN  Strip([k \in DOMAIN unmarked |-> BaseLetter(unmarked[k])])

\* two names that differ only in those respects
Variants(x, y) == Fold(x) = Fold(y)

InitNames ==
    /\ name_a \in Names
    /\ name_b \in {y \in Names : Variants(name_a, y)}
    /\ out_a = <<>>
    /\ out_b = <<>>

\* normalize_name(name_a), then normalize_name of the result
NormalizeA ==
    /\ Len(out_a) < 2
    /\ out_a' = Append(out_a, normalize_name(IF out_a = <<>> THEN name_a
                                              ELSE out_a[Len(out_a)]))
    /\ UNCHANGED <<name_a, name_b, out_b>>

\* normalize_name(name_b)
NormalizeB ==
    /\ out_b = <<>>
    /\ out_b' = <<normalize_name(name_b)>>
    /\ UNCHANGED <<name_a, name_b, out_a>>

NextNormalize == NormalizeA \/ NormalizeB

InitNamesSpec == IdleFetch /\ IdleMain /\ IdleAgg /\ InitNames
NextNames == NextNormalize /\ UNCHANGED <<fetchVars, mainVars, aggVars>>
SpecNames == InitNamesSpec /\ [][NextNames]_vars

-----------------------------------------------------------------------------
(* Properties of aggregate_authors *)

\* aggregate_authors run on a whole sequence of rows
RECURSIVE Aggregate(_)
Aggregate(rows) ==
    IF rows = <<>> THEN NewAggregation
    ELSE ProcessRow(Aggregate(SubSeq(rows, 1, Len(rows) - 1)), rows[Len(rows)])

SamePair(r1, r2) == r1.id = r2.id /\ r1.author_id = r2.author_id

\* rows without the rows that repeat the (work id, author id) of an earlier row
WithoutLaterPairs(rows) ==
    LET keep == {k \in DOMAIN rows : \A j \in 1..(k - 1) : ~SamePair(rows[j], rows[k])}
        F[k \in 0..Len(rows)] ==
            IF k = 0 THEN <<>>
            ELSE IF k \in keep THEN Append(F[k - 1], rows[k]) ELSE F[k - 1]
    IN  F[Len(rows)]

\* rows without the rows that are equal, in every column, to an earlier row
WithoutLaterCopies(rows) ==
    LET keep == {k \in DOMAIN rows : \A j \in 1..(k - 1) : rows[j] # rows[k]}
        F[k \in 0..Len(rows)] ==
            IF k = 0 THEN <<>>
            ELSE IF k \in keep THEN Append(F[k - 1], rows[k]) ELSE F[k - 1]
    IN  F[Len(rows)]

\* C9 (as stated): the output for a sequence with duplicate (work id, author id)
\* rows equals the output for the sequence without the later duplicates.
C9_SameAsWithoutLaterPairs ==
    agg_pc = "done" => agg_output = OutputRows(Aggregate(WithoutLaterPairs(rows_in)))

\* C9 (amended): the output for a sequence in which rows are repeated (equal in
\* every column) equals the output for the sequence without the later copies.
C9_SameAsWithoutLaterCopies ==
    agg_pc = "done" => agg_output = OutputRows(Aggregate(WithoutLaterCopies(rows_in)))

\* A row was read twice and was aggregated once.
C9_Witness ==
    /\ agg_pc = "done"
    /\ Len(rows_in) = 2
    /\ rows_in[1] = rows_in[2]
    /\ rows_in[1].cited_by_count = "2"
    /\ Len(agg_output) = 1
    /\ agg_output[1].works_count = 1
    /\ agg_output[1].cited_by_count = 2

\* the rows that are aggregated (author name and work id present), by position
Counted == {k \in DOMAIN rows_in :
               Strip(rows_in[k].author_name) # <<>> /\ rows_in[k].id # ""}
KeyOf(k) == normalize_name(Strip(rows_in[k].author_name))
\* the sightings of work w in the group of canonical key n
SightingsOf(n, w) == {k \in Counted : KeyOf(k) = n /\ rows_in[k].id = w}
First(S) == CHOOSE k \in S : \A j \in S : k <= j

\* the citation value of the first sighting (0 when its cell does not parse)
FirstSightingValue(n, w) ==
    LET cell == rows_in[First(SightingsOf(n, w))].cited_by_count
    IN  IF cell \in IntCells THEN IntOf(cell) ELSE 0

\* the citation value of the first sighting whose cell parses (0 if none does)
FirstParsedValue(n, w) ==
    LET parsed == {k \in SightingsOf(n, w) : rows_in[k].cited_by_count \in IntCells}
    IN  IF parsed = {} THEN 0 ELSE IntOf(rows_in[First(parsed)].cited_by_count)

GroupKeys     == {KeyOf(k) : k \in Counted}
WorksOf(n)    == {rows_in[k].id : k \in {j \in Counted : KeyOf(j) = n}}
RowsOfKey(n)  == {k \in DOMAIN agg_output : agg_output[k].author_name = TitleCase(n)}

\* C10 (as stated): a group's cited_by_count is the sum, over the distinct work
\* ids of the group, of the value carried by the first sighting of the work.
C10_SumOfFirstSightings ==
    agg_pc = "done" =>
        \A n \in GroupKeys :
            \A k \in RowsOfKey(n) :
                agg_output[k].cited_by_count =
                    SumOver([w \in WorksOf(n) |-> FirstSightingValue(n, w)], WorksOf(n))

\* C10 (amended): a group's cited_by_count is the sum, over the distinct work
\* ids of the group, of the value carried by the first sighting of the work
\* whose cited_by_count parses as an integer; a work none of whose sightings
\* parses adds nothing. Each group has exactly one output row.
C10_SumOfFirstParsedSightings ==
    agg_pc = "done" =>
        /\ Len(agg_output) = Cardinality(GroupKeys)
        /\ \A n \in GroupKeys :
              /\ Cardinality(RowsOfKey(n)) = 1
              /\ \A k \in RowsOfKey(n) :
                    /\ agg_output[k].works_count = Cardinality(WorksOf(n))
                    /\ agg_output[k].cited_by_count =
                          SumOver([w \in WorksOf(n) |-> FirstParsedValue(n, w)], WorksOf(n))

\* One work sighted twice in one group (under two spellings of the name) with
\* the values 1 and 2: the group counts 1.
C10_Witness ==
    /\ agg_pc = "done"
    /\ Len(rows_in) = 2
    /\ rows_in[1].id = rows_in[2].id
    /\ rows_in[1].author_name # rows_in[2].author_name
    /\ rows_in[1].cited_by_count = "1"
    /\ rows_in[2].cited_by_count = "2"
    /\ Len(agg_output) = 1
    /\ agg_output[1].cited_by_count = 1

-----------------------------------------------------------------------------
(* Properties of the Identity Grouper *)

\* the raw names resolved so far (stripped, as the reader hands them over)
ResolvedNames == {Strip(rows_in[k].author_name) : k \in Counted}
FirstSightingOfKey(n) == First({k \in Counted : KeyOf(k) = n})
\* the number of canonical keys first sighted before key n
KeysBefore(n) ==
    Cardinality({m \in GroupKeys : FirstSightingOfKey(m) < FirstSightingOfKey(n)})

C11_GroupIds ==
    /\ DOMAIN name_to_group_id = ResolvedNames
    /\ DOMAIN normalized_to_group_id = GroupKeys
    /\ \A a \in ResolvedNames :
          /\ normalize_name(a) \in DOMAIN normalized_to_group_id
          /\ name_to_group_id[a] = normalized_to_group_id[normalize_name(a)]
    /\ \A a, b \in ResolvedNames :
          (name_to_group_id[a] = name_to_group_id[b])
              <=> (normalize_name(a) = normalize_name(b))
    /\ group_id_counter = Cardinality(GroupKeys)
    /\ \A n \in GroupKeys :
          /\ normalized_to_group_id[n] = KeysBefore(n)
          /\ group_normalized_names[normalized_to_group_id[n]] = n

C11_IdsAreKept ==
    /\ group_id_counter' >= group_id_counter
    /\ \A n \in DOMAIN normalized_to_group_id :
          /\ n \in DOMAIN normalized_to_group_id'
          /\ normalized_to_group_id'[n] = normalized_to_group_id[n]
    /\ \A a \in DOMAIN name_to_group_id :
          /\ a \in DOMAIN name_to_group_id'
          /\ name_to_group_id'[a] = name_to_group_id[a]

\* C11: after any sequence of raw names, two raw names have the same group id
\* exactly when they have the same canonical key, whether the id comes from the
\* raw-string cache or from the normalization lookup; the ids are 0, 1, 2, ...
\* in the order in which the canonical keys were first sighted, the counter
\* never decreases and an id given to a key or a spelling is never changed.
C11_SameGroupIffSameKey == []C11_GroupIds /\ [][C11_IdsAreKept]_vars

\* Two spellings of one key resolved to group 0 and a second key to group 1.
C11_Witness ==
    /\ Cardinality(DOMAIN name_to_group_id) = 3
    /\ group_id_counter = 2
    /\ \E a, b, c \in DOMAIN name_to_group_id :
          /\ a # b
          /\ name_to_group_id[a] = 0
          /\ name_to_group_id[b] = 0
          /\ name_to_group_id[c] = 1

-----------------------------------------------------------------------------
(* Properties of normalize_name *)

\* C12: for every name n, normalize_name(normalize_name(n)) = normalize_name(n).
C12_Idempotent == Len(out_a) = 2 => out_a[2] = out_a[1]

\* A name that normalization changes into a non-empty key, normalized twice.
C12_Witness ==
    /\ Len(out_a) = 2
    /\ out_a[1] # name_a
    /\ out_a[1] # <<>>

\* the letters whose diacritic or case normalize_name does not undo: a letter
\* written with a stroke is one code point without a decomposition, and the
\* dotless i is not the lower case of "I"
DecomposableBase(c) ==
    CASE c \in {"a/", "A/"} -> "a/"
      [] c = "i0"           -> "i0"
      [] OTHER              -> BaseLetter(c)
DecomposableFold(name) ==
    LET unmarked == SelectSeq(name, LAMBDA c : ~IsCombining(c))
    IN  Strip([k \in DOMAIN unmarked |-> DecomposableBase(unmarked[k])])

\* C13 (as stated): two names that differ only in diacritics, letter case,
\* hyphen-versus-space or leading/trailing whitespace have the same
\* normalize_name.
C13_VariantsNormalizeAlike ==
    (out_a # <<>> /\ out_b # <<>>) => out_a[1] = out_b[1]

\* C13 (amended): two names that differ only in diacritics that NFKD splits off
\* as combining marks, in the case of letters whose lower-case form is the same
\* for every case variant, in hyphen-versus-space or in leading/trailing
\* whitespace have the same normalize_name.
C13_RegularVariantsNormalizeAlike ==
    (out_a # <<>> /\ out_b # <<>> /\ DecomposableFold(name_a) = DecomposableFold(name_b))
        => out_a[1] = out_b[1]

\* An accented upper-case name and its plain lower-case spelling.
C13_Witness ==
    /\ name_a = <<"A^", "-">>
    /\ name_b = <<" ", "a">>
    /\ out_a = <<<<"a">>>>
    /\ out_b = <<<<"a">>>>

-----------------------------------------------------------------------------
(* Properties of the output of aggregate_authors *)

\* the canonical key of the group that output row k displays
OutputKey(k) == CHOOSE n \in GroupKeys : TitleCase(n) = agg_output[k].author_name

\* C14: the rows returned by aggregate_authors are in descending order of
\* works_count, there is exactly one row per group, and rows with equal
\* works_count are in the order in which their groups were created.
C14_SortedOneRowPerGroup ==
    agg_pc = "done" =>
        /\ Len(agg_output) = Cardinality(GroupKeys)
        /\ \A n \in GroupKeys : Cardinality(RowsOfKey(n)) = 1
        /\ \A j, k \in DOMAIN agg_output :
              j < k =>
                  /\ agg_output[j].works_count >= agg_output[k].works_count
                  /\ agg_output[j].works_count = agg_output[k].works_count
                        => FirstSightingOfKey(OutputKey(j)) < FirstSightingOfKey(OutputKey(k))

\* The group created second has two works and the group created first has
\* one: the sort moves the second group in front.
C14_Witness ==
    /\ agg_pc = "done"
    /\ Len(rows_in) = 3
    /\ Len(agg_output) = 2
    /\ agg_output[1].works_count = 2
    /\ agg_output[2].works_count = 1
    /\ FirstSightingOfKey(OutputKey(2)) = 1

-----------------------------------------------------------------------------
(* Rows without an author name *)

\* a row whose author name is empty or whitespace-only
Nameless(row) == Strip(row.author_name) = <<>>
NamelessRows == {k \in DOMAIN rows_in : Nameless(rows_in[k]) /\ rows_in[k].id # ""}

\* C15 (as stated): a row whose author name is empty or whitespace-only is
\* not lost: it is accumulated under the empty canonical key into an
\* "unknown author" group that appears in the aggregated output.
C15_NamelessRowsInUnknownGroup ==
    (agg_pc = "done" /\ NamelessRows # {}) =>
        \E k \in DOMAIN agg_output :
            /\ agg_output[k].author_name = TitleCase(normalize_name(<<>>))
            /\ agg_output[k].works_count >= 1

\* C15 (amended): a row whose author name is empty or whitespace-only is not
\* an error; it is skipped: the aggregated output is the output of the same
\* file without these rows, with one row per canonical key of the named rows.
C15_NamelessRowsSkipped ==
    agg_pc = "done" =>
        /\ agg_output =
              OutputRows(Aggregate(SelectSeq(rows_in, LAMBDA row : ~Nameless(row))))
        /\ Len(agg_output) = Cardinality(GroupKeys)
        /\ \A k \in DOMAIN agg_output :
              \E j \in DOMAIN rows_in :
                  /\ ~Nameless(rows_in[j])
                  /\ agg_output[k].author_name = TitleCase(KeyOf(j))

\* A file with a whitespace-only author name on a row that has a work id,
\* next to a named row: the output has the named group only.
C15_Witness ==
    /\ agg_pc = "done"
    /\ NamelessRows # {}
    /\ Len(agg_output) = 1
    /\ agg_output[1].author_name # <<>>

-----------------------------------------------------------------------------
(* Cursor threading of fetch_author_works *)

\* C16: within one entity's pagination at most one page request is in flight
\* at any instant (a request is issued only when every earlier request of the
\* entity has been answered with a page), the first request uses the start
\* cursor "*", and every later request uses exactly the next_cursor returned
\* by the immediately preceding response of that entity.
C16_CursorThreading ==
    \A i \in Tasks :
        /\ requests[i] <= Len(served[i]) + 1
        /\ pc[i] = "inflight" =>
              /\ requests[i] = Len(served[i]) + 1
              /\ cursor[i] = IF requests[i] = 1 THEN "*" ELSE meta[i]
              /\ requests[i] > 1 => meta[i] = CursorTokens[requests[i] - 1]

\* Two entities have a request in flight at once: one its first, with the
\* start cursor, the other its second, with the cursor its first page returned.
C16_Witness ==
    \E i, j \in Tasks :
        /\ pc[i] = "inflight" /\ requests[i] = 1 /\ cursor[i] = "*"
        /\ pc[j] = "inflight" /\ requests[j] = 2 /\ cursor[j] = CursorTokens[1]

-----------------------------------------------------------------------------
(* The result mapping and the order of completion *)

\* C18: whatever order the fetch tasks complete in, each entity id of the
\* result mapping is associated with the records fetched by that entity's own
\* pagination, never with those of another entity.
C18_OwnRecords ==
    batch = "returned" =>
        \A i \in Tasks :
            author_ids[i] \in DOMAIN author_works_dict =>
                /\ author_works_dict[author_ids[i]] = all_works[i]
                /\ \A k \in DOMAIN author_works_dict[author_ids[i]] :
                      author_works_dict[author_ids[i]][k].owner = author_ids[i]

\* The tasks completed in the reverse of the order of author_ids, and all
\* three entities are in the mapping.
C18_Witness ==
    /\ batch = "returned"
    /\ Len(res) = 3
    /\ res[1][1] = 3
    /\ res[2][1] = 2
    /\ res[3][1] = 1
    /\ \A i \in Tasks : author_ids[i] \in DOMAIN author_works_dict

-----------------------------------------------------------------------------
(* Termination of the fetch engine *)

AllDone == \A i \in Tasks : pc[i] = "done"

\* C17: for every capacity C >= 1 and R >= 1, when every issued request gets a
\* response and every pagination is finite, every fetch task eventually
\* completes, and once all tasks have completed both pools are back at full
\* capacity, also when tasks stopped on a non-success status.
C17_CompletesAndRestores ==
    /\ <>[]AllDone
    /\ [](AllDone => (semaphore = C /\ rate_limiter = R))

\* With one slot and one permit, all three tasks completed, one of them on a
\* non-success status, and both pools are full again.
C17_Witness ==
    /\ C = 1
    /\ R = 1
    /\ AllDone
    /\ \E i \in Tasks : StatusFailed(i)
    /\ semaphore = 1
    /\ rate_limiter = 1

====
